---- MODULE Spec2Model ----
(***************************************************************************)
(* A model of src/agent.py: the job-description intake on the data channel *)
(* (entrypoint, on_data_received, handle_data) and the fit-evaluation tool *)
(* (ResumeAgent.evaluate_fit) over the ChromaDB collection.                *)
(*                                                                         *)
(* Text is a sequence of characters; a fixed literal of the source is one  *)
(* character of that sequence.  The bytes of a data packet are a sequence  *)
(* of lexical units (a brace, a quoted string, a number, a bare word, a    *)
(* byte that is not UTF-8), which json.loads is run over.                  *)
(***************************************************************************)
EXTENDS Integers, Sequences, FiniteSets, TLC

\* ------------------------------------------------------------------ bounds
\* Data packets the room delivers in one run.
MaxPackets == 2
\* Resume chunks the collection can hold.
MaxChunks == 6
\* Tool calls the language model makes in one run.
MaxToolCalls == 1

\* ------------------------------------------------------------------- text
RECURSIVE Join(_, _)
\* sep.join(parts)
Join(parts, sep) ==
    IF Len(parts) = 0 THEN << >>
    ELSE IF Len(parts) = 1 THEN parts[1]
    ELSE parts[1] \o sep \o Join(Tail(parts), sep)

\* ----------------------------------------------------------- Python values
PyNone == [t |-> "None", v |-> << >>]
PyStr(s) == [t |-> "str", v |-> s]
PyInt(d) == [t |-> "int", v |-> <<d>>]

\* bool(x) for the values a flat JSON object can hold
Truthy(x) ==
    CASE x.t = "None" -> FALSE
      [] x.t = "str" -> Len(x.v) > 0
      [] x.t = "int" -> x.v # <<"0">>

\* ------------------------------------------------------- bytes of a packet
LBrace == [k |-> "punct", v |-> <<"{">>]
RBrace == [k |-> "punct", v |-> <<"}">>]
Colon == [k |-> "punct", v |-> <<":">>]
Comma == [k |-> "punct", v |-> <<",">>]
QStr(s) == [k |-> "string", v |-> s]
Num(d) == [k |-> "number", v |-> <<d>>]
Null == [k |-> "null", v |-> << >>]
Word(s) == [k |-> "word", v |-> s]
BadByte == [k |-> "badbyte", v |-> << >>]

TypeKey == <<"type">>
ContentKey == <<"content">>
JobDescription == <<"job_description">>

\* dp.data.decode("utf-8"): raises UnicodeDecodeError on a byte that is not
\* UTF-8, and otherwise yields the text of the packet.
Utf8Decode(data) ==
    IF \E i \in 1..Len(data) : data[i].k = "badbyte"
    THEN [exc |-> "UnicodeDecodeError", text |-> << >>]
    ELSE [exc |-> "none", text |-> data]

IsJsonScalar(tok) == tok.k \in {"string", "number", "null"}

JsonScalar(tok) ==
    CASE tok.k = "string" -> PyStr(tok.v)
      [] tok.k = "number" -> PyInt(tok.v[1])
      [] tok.k = "null" -> PyNone

JsonFail == [exc |-> "JSONDecodeError", kind |-> "none", members |-> << >>]

RECURSIVE JsonMembers(_, _, _)
\* The members of an object from unit i on: "key" : value, then , or the
\* closing brace that ends the text.
JsonMembers(text, i, acc) ==
    IF i + 3 > Len(text) THEN JsonFail
    ELSE IF text[i].k = "string" /\ text[i + 1] = Colon /\ IsJsonScalar(text[i + 2])
    THEN LET more == Append(acc, [key |-> text[i].v, val |-> JsonScalar(text[i + 2])])
         IN  IF text[i + 3] = RBrace
             THEN IF i + 3 = Len(text)
                  THEN [exc |-> "none", kind |-> "object", members |-> more]
                  ELSE JsonFail
             ELSE IF text[i + 3] = Comma
                  THEN JsonMembers(text, i + 4, more)
                  ELSE JsonFail
    ELSE JsonFail

\* json.loads(text) on the JSON this model writes: a scalar, or an object
\* whose values are scalars.  Anything else raises JSONDecodeError.
JsonLoads(text) ==
    IF Len(text) = 1 /\ IsJsonScalar(text[1])
    THEN [exc |-> "none", kind |-> "scalar", members |-> << >>]
    ELSE IF Len(text) = 2 /\ text[1] = LBrace /\ text[2] = RBrace
    THEN [exc |-> "none", kind |-> "object", members |-> << >>]
    ELSE IF Len(text) >= 1 /\ text[1] = LBrace
    THEN JsonMembers(text, 2, << >>)
    ELSE JsonFail

\* dict.get(key): the value of the last member with that key, else None.
DictGet(members, key) ==
    LET hits == {i \in 1..Len(members) : members[i].key = key}
    IN  IF hits = {} THEN PyNone
        ELSE members[CHOOSE i \in hits : \A j \in hits : j <= i].val

\* ------------------------------------------------------------ participants
\* rtc.DataPacket.participant: a participant of the room, or None.
NoParticipant == [identity |-> "", kind |-> "none"]
Recruiter == [identity |-> "recruiter", kind |-> "PARTICIPANT_KIND_STANDARD"]
LocalAgent == [identity |-> "resume-agent", kind |-> "PARTICIPANT_KIND_AGENT"]
OtherAgent == [identity |-> "other-agent", kind |-> "PARTICIPANT_KIND_AGENT"]
Participants == {NoParticipant, Recruiter, LocalAgent, OtherAgent}

\* The job descriptions a recruiter pastes.
Contents == {<<"a">>, <<"b", "a">>}

\* script.js sends: { "type": "job_description", "content": "..." }
JDBody(x) ==
    <<LBrace, QStr(TypeKey), Colon, QStr(JobDescription), Comma,
      QStr(ContentKey), Colon, QStr(x), RBrace>>

\* The bodies the room delivers: the frontend's message, its malformed and
\* near-miss forms, JSON that is not an object, raw text, bytes that are not
\* UTF-8.
Bodies ==
    {JDBody(x) : x \in Contents \cup {<< >>}}
    \cup {
      <<LBrace, QStr(TypeKey), Colon, QStr(JobDescription), RBrace>>,
      <<LBrace, QStr(TypeKey), Colon, QStr(JobDescription), Comma,
        QStr(ContentKey), Colon, Null, RBrace>>,
      <<LBrace, QStr(TypeKey), Colon, QStr(JobDescription), Comma,
        QStr(ContentKey), Colon, Num("7"), RBrace>>,
      <<LBrace, QStr(TypeKey), Colon, QStr(<<"chat">>), Comma,
        QStr(ContentKey), Colon, QStr(<<"a">>), RBrace>>,
      <<LBrace, QStr(ContentKey), Colon, QStr(<<"a">>), RBrace>>,
      <<LBrace, RBrace>>,
      <<LBrace, QStr(TypeKey), Colon, QStr(JobDescription), Comma,
        QStr(ContentKey), Colon, QStr(<<"a">>)>>,
      <<Num("4")>>,
      <<QStr(<<"a">>)>>,
      <<Word(<<"b", "a">>)>>,
      <<Word(JobDescription)>>,
      << >>,
      <<BadByte>>,
      <<Word(<<"a">>), BadByte>>
    }

DataPackets == [participant : Participants, data : Bodies]

\* ------------------------------------------------------------- handle_data
\* Line 108: dp.participant and dp.participant.kind == PARTICIPANT_KIND_AGENT
IsFromAgentNever(participant) == FALSE

IsFromAgent(participant) ==
    participant # NoParticipant /\ participant.kind = "PARTICIPANT_KIND_AGENT"

Prefix == <<"Here is the Job Description I need you to evaluate: ">>
Suffix == <<". Am I a fit?">>

\* Line 131, with the content left out of the f-string.
UserInputFixed(content) == Prefix \o Suffix

\* Line 131: the f-string handed to session.generate_reply.
UserInput(content) == Prefix \o content \o Suffix

\* Line 126 as the raw-fallback variants have it: any non-empty content.
ShouldForwardAnyContent(message_type, content) == Truthy(content)

\* Line 126: message_type == "job_description" and content
ShouldForward(message_type, content) ==
    message_type = PyStr(JobDescription) /\ Truthy(content)

\* Lines 117-124: json.loads and the two .get calls; JSONDecodeError falls
\* back to the raw text; a JSON value that is no dict has no .get.
ParseMessage(decoded_str) ==
    LET j == JsonLoads(decoded_str)
    IN  IF j.exc = "JSONDecodeError"
        THEN [exc |-> "none", path |-> "raw",
              message_type |-> PyStr(<<"raw">>), content |-> PyStr(decoded_str)]
        ELSE IF j.kind # "object"
        THEN [exc |-> "AttributeError", path |-> "json",
              message_type |-> PyNone, content |-> PyNone]
        ELSE [exc |-> "none", path |-> "json",
              message_type |-> DictGet(j.members, TypeKey),
              content |-> DictGet(j.members, ContentKey)]

\* What one run of handle_data does up to the await of line 130.
\*   path: "agent" (returned at line 109), "undecoded", "json" or "raw"
\*   exc:  the exception raised inside the try, "none" if none
\*   call: session.generate_reply was called, with user_input
NoRun ==
    [path |-> "none", exc |-> "none", message_type |-> PyNone,
     content |-> PyNone, call |-> FALSE, user_input |-> << >>]

HandleData(dp) ==
    IF IsFromAgent(dp.participant)
    THEN [NoRun EXCEPT !.path = "agent"]
    ELSE LET d == Utf8Decode(dp.data)
         IN  IF d.exc # "none"
             THEN [NoRun EXCEPT !.path = "undecoded", !.exc = d.exc]
             ELSE LET m == ParseMessage(d.text)
                      r == [NoRun EXCEPT !.path = m.path,
                                         !.message_type = m.message_type,
                                         !.content = m.content]
                  IN  IF m.exc # "none" THEN [r EXCEPT !.exc = m.exc]
                      ELSE IF ~ShouldForward(m.message_type, m.content) THEN r
                      \* line 127: content[:50] needs a sliceable content
                      ELSE IF m.content.t # "str"
                      THEN [r EXCEPT !.exc = "TypeError"]
                      ELSE [r EXCEPT !.call = TRUE,
                                     !.user_input = UserInput(m.content.v)]

\* ------------------------------------------------------ ChromaDB collection
\* Line 70: n_results=5
NResultsAll == MaxChunks + 1

NResults == 5

\* The text of the resume chunks, in the order they were ingested.
ChunkTexts ==
    << <<"p">>, <<"q", "a">>, <<"r">>, <<"s">>, <<"t">>, <<"u">>, <<"v">>, <<"w">> >>

Min(a, b) == IF a < b THEN a ELSE b

\* The rankings a query for n results gives over a collection of count
\* chunks: min(n, count) distinct chunks, nearest first.  The rankings
\* drawn here start at any chunk and go on through the collection, upwards
\* or downwards, wrapping around.
Rankings(count, n) ==
    LET k == Min(n, count)
    IN  IF k = 0 THEN {<< >>}
        ELSE {[i \in 1..k |-> ((start - 1 + step * (i - 1)) % count) + 1] :
                start \in 1..count, step \in {1, count - 1}}

\* results['documents'] of a query that returned: None, or one list of
\* chunk texts per query text.
NoDocuments == [none |-> TRUE, lists |-> << >>]
Documents(lists) == [none |-> FALSE, lists |-> lists]

NoQuery == [exc |-> "none", documents |-> NoDocuments]

\* What collection.query(query_texts=[job_description], n_results=n) can
\* do (lines 68-71): the name `collection` is unbound, the query raises, or
\* it returns results.
QueryOutcomes(collection, count, n) ==
    IF collection = "unbound"
    THEN {[exc |-> "NameError", documents |-> NoDocuments]}
    ELSE {[exc |-> "ChromaError", documents |-> NoDocuments]}
         \cup {[exc |-> "none", documents |-> NoDocuments]}
         \cup {[exc |-> "none", documents |-> Documents(<< >>)]}
         \cup {[exc |-> "none",
                documents |-> Documents(<<[i \in 1..Len(r) |-> ChunkTexts[r[i]]]>>)] :
               r \in Rankings(count, n)}

\* ------------------------------------------------------------ evaluate_fit
Separator == <<"\n---\n">>
NoExperience == <<"No relevant experience found in resume.">>
Header == <<"RETRIEVED RESUME SECTIONS:\n">>
BlankLine == <<"\n\n">>
Instruction == <<"INSTRUCTION: Compare the JD strictly against these sections.">>
ErrorString == <<"Error: Could not retrieve resume data.">>

\* bool(x) of a list
NonEmpty(list) == Len(list) > 0

\* Lines 72-75: the context taken from the results.
RetrievedContext(documents) ==
    IF ~documents.none /\ NonEmpty(documents.lists) /\ NonEmpty(documents.lists[1])
    THEN Join(documents.lists[1], Separator)
    ELSE NoExperience

\* Lines 77-80 with the instruction left off.
ComposeBlockBare(retrieved_context) == Header \o retrieved_context

\* Lines 77-80: the block returned.
ComposeBlock(retrieved_context) ==
    Header \o retrieved_context \o BlankLine \o Instruction

\* An except clause that names the store's own error only.
CaughtByStoreErrorOnly(exc) == exc = "ChromaError"

\* Line 81: except Exception
CaughtByExcept(exc) == exc \in {"NameError", "ChromaError", "TypeError", "KeyError"}

\* One invocation of evaluate_fit (lines 65-83) with the query doing q.
EvaluateFitRun(job_description, q) ==
    IF q.exc = "none"
    THEN [outcome |-> "returned",
          value |-> ComposeBlock(RetrievedContext(q.documents))]
    ELSE IF CaughtByExcept(q.exc)
    THEN [outcome |-> "returned", value |-> ErrorString]
    ELSE [outcome |-> "raised", value |-> << >>]

NoTool ==
    [job_description |-> << >>, query |-> NoQuery, outcome |-> "none", value |-> << >>]

\* ------------------------------------------------------------------ state
VARIABLES
    epc,        \* where entrypoint is: "new", "session", "listening", "started", "connected"
    listeners,  \* callbacks registered on ctx.room for "data_received"
    received,   \* data packets the room has emitted
    tasks,      \* the handle_data tasks alive, oldest first: [dp, at]
    finished,   \* handle_data tasks that have ended
    ran,        \* handle_data tasks that have started running
    calls,      \* the user_input of every session.generate_reply call, in order
    errorLog,   \* logger.error calls of line 135
    lastRun,    \* the latest run of handle_data: its packet, locals and outcome
    turn,       \* the latest user turn the session took: its source and text
    chroma,     \* the module-level name `collection`: "unset", "bound", "unbound"
    chunks,     \* resume chunks in the collection
    toolCalls,  \* evaluate_fit invocations so far
    lastTool    \* the latest evaluate_fit invocation: its argument, query and outcome

intakeVars == <<epc, listeners, received, tasks, finished, ran, calls, errorLog, lastRun>>
toolVars == <<turn, chroma, chunks, toolCalls, lastTool>>
vars == <<intakeVars, toolVars>>

NoPacket == [participant |-> NoParticipant, data |-> << >>]
NoTurn == [source |-> "none", text |-> << >>]

Init ==
    /\ epc = "new"
    /\ listeners = {}
    /\ received = 0
    /\ tasks = << >>
    /\ finished = 0
    /\ ran = 0
    /\ calls = << >>
    /\ errorLog = 0
    /\ lastRun = [dp |-> NoPacket, run |-> NoRun, errorsBefore |-> 0]
    /\ turn = NoTurn
    /\ chroma = "unset"
    /\ chunks = 0
    /\ toolCalls = 0
    /\ lastTool = NoTool

\* ------------------------------------------------------------- entrypoint
\* Lines 92-98: session = AgentSession(...)
CreateSession ==
    /\ epc = "new"
    /\ epc' = "session"
    /\ UNCHANGED <<listeners, received, tasks, finished, ran, calls, errorLog, lastRun>>
    /\ UNCHANGED toolVars

\* Line 101: @ctx.room.on("data_received")
RegisterListener ==
    /\ epc = "session"
    /\ epc' = "listening"
    /\ listeners' = listeners \cup {"on_data_received"}
    /\ UNCHANGED <<received, tasks, finished, ran, calls, errorLog, lastRun>>
    /\ UNCHANGED toolVars

\* Lines 138-145: await session.start(...)
StartSession ==
    /\ epc = "listening"
    /\ epc' = "started"
    /\ UNCHANGED <<listeners, received, tasks, finished, ran, calls, errorLog, lastRun>>
    /\ UNCHANGED toolVars

\* Line 147: await ctx.connect()
Connect ==
    /\ epc = "started"
    /\ epc' = "connected"
    /\ UNCHANGED <<listeners, received, tasks, finished, ran, calls, errorLog, lastRun>>
    /\ UNCHANGED toolVars

\* -------------------------------------------------------- on_data_received
\* Line 104 with the packet dropped while a reply is being generated.
CreateTaskUnlessBusy(ts, dp) ==
    IF \E i \in 1..Len(ts) : ts[i].at = "awaiting" THEN ts
    ELSE Append(ts, [dp |-> dp, at |-> "created"])

\* Line 104: asyncio.create_task(handle_data(dp)); the task is scheduled
\* and on_data_received returns.
CreateTask(ts, dp) == Append(ts, [dp |-> dp, at |-> "created"])

\* The room emits "data_received" with a packet: every registered callback
\* is called with it (lines 101-104).
OnDataReceived ==
    /\ epc = "connected"
    /\ received < MaxPackets
    /\ \E dp \in DataPackets :
        /\ received' = received + 1
        /\ tasks' = IF "on_data_received" \in listeners
                    THEN CreateTask(tasks, dp) ELSE tasks
    /\ UNCHANGED <<epc, listeners, finished, ran, calls, errorLog, lastRun>>
    /\ UNCHANGED toolVars

\* ------------------------------------------------------------ handle_data
Remove(ts, i) == [j \in 1..(Len(ts) - 1) |-> IF j < i THEN ts[j] ELSE ts[j + 1]]

\* Lines 134-135 unregistering the callback on an error.
ExceptUnregisters(ls) == ls \ {"on_data_received"}

\* Lines 134-135: the except clause logs; the callbacks registered on the
\* room stay as they are.
ExceptHandler(ls) == ls

\* The event loop starts tasks in the order they were created.
NextCreated ==
    CHOOSE i \in 1..Len(tasks) :
        /\ tasks[i].at = "created"
        /\ \A j \in 1..(i - 1) : tasks[j].at # "created"

HasCreated == \E i \in 1..Len(tasks) : tasks[i].at = "created"

\* A task runs handle_data from line 106 to its end without reaching
\* session.generate_reply: it returns at line 109, or fails the test of
\* line 126, or raises into the except clause of line 134.
RunToEnd ==
    /\ HasCreated
    /\ LET i == NextCreated
           dp == tasks[i].dp
           r == HandleData(dp)
       IN  /\ ~r.call
           /\ tasks' = Remove(tasks, i)
           /\ lastRun' = [dp |-> dp, run |-> r, errorsBefore |-> errorLog]
           /\ errorLog' = IF r.exc # "none" THEN errorLog + 1 ELSE errorLog
           /\ listeners' = IF r.exc # "none" THEN ExceptHandler(listeners) ELSE listeners
    /\ ran' = ran + 1
    /\ finished' = finished + 1
    /\ UNCHANGED <<epc, received, calls>>
    /\ UNCHANGED toolVars

\* A task runs handle_data from line 106 to the call of line 130, and the
\* reply is in flight: the task waits for it.
RunToReply ==
    /\ HasCreated
    /\ LET i == NextCreated
           dp == tasks[i].dp
           r == HandleData(dp)
       IN  /\ r.call
           /\ calls' = Append(calls, r.user_input)
           /\ tasks' = [tasks EXCEPT ![i].at = "awaiting"]
           /\ lastRun' = [dp |-> dp, run |-> r, errorsBefore |-> errorLog]
    /\ ran' = ran + 1
    /\ UNCHANGED <<epc, listeners, received, finished, errorLog>>
    /\ UNCHANGED toolVars

\* A task runs handle_data to the call of line 130, which raises at once
\* (the session is closing, say): caught at line 134.
RunToReplyRaises ==
    /\ HasCreated
    /\ LET i == NextCreated
           dp == tasks[i].dp
           r == HandleData(dp)
       IN  /\ r.call
           /\ calls' = Append(calls, r.user_input)
           /\ tasks' = Remove(tasks, i)
           /\ lastRun' = [dp |-> dp, run |-> [r EXCEPT !.exc = "RuntimeError"],
                          errorsBefore |-> errorLog]
    /\ errorLog' = errorLog + 1
    /\ listeners' = ExceptHandler(listeners)
    /\ ran' = ran + 1
    /\ finished' = finished + 1
    /\ UNCHANGED <<epc, received>>
    /\ UNCHANGED toolVars

\* The reply a task waits for is done: handle_data returns.
ReplyDone ==
    /\ \E i \in 1..Len(tasks) :
        /\ tasks[i].at = "awaiting"
        /\ tasks' = Remove(tasks, i)
    /\ finished' = finished + 1
    /\ UNCHANGED <<epc, listeners, received, ran, calls, errorLog, lastRun>>
    /\ UNCHANGED toolVars

\* The reply a task waits for fails: the await raises into line 134.
ReplyFails ==
    /\ \E i \in 1..Len(tasks) :
        /\ tasks[i].at = "awaiting"
        /\ tasks' = Remove(tasks, i)
    /\ finished' = finished + 1
    /\ errorLog' = errorLog + 1
    /\ listeners' = ExceptHandler(listeners)
    /\ UNCHANGED <<epc, received, ran, calls, lastRun>>
    /\ UNCHANGED toolVars

\* Lines 32-35: the client and the collection are there.
ChromaSetup ==
    /\ chroma = "unset"
    /\ chroma' = "bound"
    /\ chunks' \in 0..MaxChunks
    /\ UNCHANGED <<turn, toolCalls, lastTool>>
    /\ UNCHANGED intakeVars

\* Lines 36-37: connecting failed; `collection` is never bound.
ChromaSetupFails ==
    /\ chroma = "unset"
    /\ chroma' = "unbound"
    /\ UNCHANGED <<turn, chunks, toolCalls, lastTool>>
    /\ UNCHANGED intakeVars

\* What the recruiter says, as the speech-to-text hears it.
Transcripts == {<<"hello">>, <<"b", "a">>}

\* The voice path: the session takes a spoken user turn.
VoiceTurn ==
    /\ chroma # "unset"
    /\ \E text \in Transcripts : turn' = [source |-> "voice", text |-> text]
    /\ UNCHANGED <<chroma, chunks, toolCalls, lastTool>>
    /\ UNCHANGED intakeVars

\* The data-message path: the session takes the user turn of line 130.
DataTurn ==
    /\ chroma # "unset"
    /\ \E x \in Contents : turn' = [source |-> "data", text |-> UserInput(x)]
    /\ UNCHANGED <<chroma, chunks, toolCalls, lastTool>>
    /\ UNCHANGED intakeVars

\* The arguments the language model may call the tool with.
ToolArguments == Contents \cup {<< >>, <<"z">>}

\* The language model answers a user turn by calling evaluate_fit.
EvaluateFit ==
    /\ turn.source # "none"
    /\ toolCalls < MaxToolCalls
    /\ \E job_description \in ToolArguments, q \in QueryOutcomes(chroma, chunks, NResults) :
        lastTool' = [job_description |-> job_description, query |-> q]
                    @@ EvaluateFitRun(job_description, q)
    /\ toolCalls' = toolCalls + 1
    /\ UNCHANGED <<turn, chroma, chunks>>
    /\ UNCHANGED intakeVars

Next ==
    \/ CreateSession
    \/ RegisterListener
    \/ StartSession
    \/ Connect
    \/ OnDataReceived
    \/ RunToEnd
    \/ RunToReply
    \/ RunToReplyRaises
    \/ ReplyDone
    \/ ReplyFails

Spec == Init /\ [][Next]_vars

NextTool ==
    \/ ChromaSetup
    \/ ChromaSetupFails
    \/ VoiceTurn
    \/ DataTurn
    \/ EvaluateFit

SpecTool == Init /\ [][NextTool]_vars

\* ================================================================= claims
\* sub occurs in s as a contiguous run (Python's `sub in s`).
Contains(s, sub) ==
    \E i \in 0..(Len(s) - Len(sub)) :
        \A j \in 1..Len(sub) : s[i + j] = sub[j]

\* The packet is the frontend's message with a non-empty content x.
IsJDMessage(data) == \E x \in Contents : data = JDBody(x)

\* The content x of the frontend's message.
JDContent(data) == data[8].v

AgentKind(participant) == participant.kind = "PARTICIPANT_KIND_AGENT"

\* A step in which a handle_data task ran (to its end or to its await).
Ran == ran' = ran + 1

\* The step called session.generate_reply once, with an utterance that
\* contains x.
ForwardsOnce(x) ==
    /\ Len(calls') = Len(calls) + 1
    /\ SubSeq(calls', 1, Len(calls)) = calls
    /\ Contains(calls'[Len(calls')], x)

InFlight == {i \in 1..Len(tasks) : tasks[i].at = "awaiting"}

\* C1 as the specification states it: whoever sent it, a well-formed
\* job_description message with non-empty content X makes handle_data call
\* session.generate_reply exactly once, with an utterance containing X.
C1_AnySender ==
    [][/\ (Ran /\ IsJDMessage(lastRun'.dp.data)) => ForwardsOnce(JDContent(lastRun'.dp.data))
       /\ ~Ran => calls' = calls]_vars

\* C1, amended: a well-formed job_description message with non-empty
\* content X whose sender is not a participant of kind agent makes
\* handle_data call session.generate_reply exactly once, with an utterance
\* containing X; no other step of the task calls it again.
C1_ForwardsOnce ==
    [][/\ (Ran /\ IsJDMessage(lastRun'.dp.data) /\ ~AgentKind(lastRun'.dp.participant))
            => ForwardsOnce(JDContent(lastRun'.dp.data))
       /\ ~Ran => calls' = calls]_vars

C1_Witness ==
    /\ ran > 0
    /\ lastRun.dp = [participant |-> Recruiter, data |-> JDBody(<<"b", "a">>)]
    /\ Len(calls) = 1
    /\ Contains(calls[1], <<"b", "a">>)

\* C2: a packet sent by the agent's own participant is never forwarded:
\* the task that handles it ends without a session.generate_reply call,
\* whatever its body, and never waits for a reply.
C2_OwnPacketsDropped ==
    [][(Ran /\ lastRun'.dp.participant = LocalAgent)
          => (calls' = calls /\ InFlight' = InFlight /\ finished' = finished + 1)]_vars

C2_Witness ==
    /\ ran > 0
    /\ lastRun.dp = [participant |-> LocalAgent, data |-> JDBody(<<"a">>)]
    /\ lastRun.run.path = "agent"
    /\ calls = << >>

\* C3 as the specification states it: every invocation of evaluate_fit, on
\* the voice path and on the data-message path, has a non-empty
\* job_description.
C3_NeverEmptyJD == toolCalls > 0 => lastTool.job_description # << >>

\* The retrieval succeeded: the query returned results.
Retrieved == toolCalls > 0 /\ lastTool.query.exc = "none"

HasDocuments ==
    /\ ~lastTool.query.documents.none
    /\ Len(lastTool.query.documents.lists) > 0
    /\ Len(lastTool.query.documents.lists[1]) > 0

\* Every retrieved fragment, or the sentinel when there is none, is in the
\* text.
HoldsContext(text) ==
    IF HasDocuments
    THEN \A i \in 1..Len(lastTool.query.documents.lists[1]) :
            Contains(text, lastTool.query.documents.lists[1][i])
    ELSE Contains(text, NoExperience)

RECURSIVE Total(_)
Total(parts) == IF Len(parts) = 0 THEN 0 ELSE Len(parts[1]) + Total(Tail(parts))

\* The length of the context: the fragments and the separators between
\* them, or the sentinel.
ContextLength ==
    IF HasDocuments
    THEN Total(lastTool.query.documents.lists[1])
         + (Len(lastTool.query.documents.lists[1]) - 1) * Len(Separator)
    ELSE Len(NoExperience)

C5_AlwaysReturns ==
    toolCalls > 0 =>
        /\ lastTool.outcome = "returned"
        /\ Len(lastTool.value) > 0
        /\ (lastTool.query.exc # "none" \/ chroma = "unbound") => lastTool.value = ErrorString

C5_Witness ==
    /\ toolCalls > 0
    /\ chroma = "unbound"
    /\ lastTool.query.exc = "NameError"
    /\ lastTool.outcome = "returned"
    /\ lastTool.value = ErrorString

\* The body is not decodable as a {type, content} object: it is not UTF-8,
\* or not JSON, or JSON that is not an object.
NotStructured(data) ==
    \/ Utf8Decode(data).exc # "none"
    \/ JsonLoads(Utf8Decode(data).text).exc # "none"
    \/ JsonLoads(Utf8Decode(data).text).kind # "object"

\* C6 as the specification states it: a body that is not valid structured
\* data takes the raw fallback (type "raw", content the whole decoded text),
\* and no exception leaves handle_data.
C6_RawFallback ==
    [][(Ran /\ ~AgentKind(lastRun'.dp.participant) /\ NotStructured(lastRun'.dp.data))
          => /\ lastRun'.run.path = "raw"
             /\ lastRun'.run.message_type = PyStr(<<"raw">>)
             /\ lastRun'.run.content = PyStr(lastRun'.dp.data)
             /\ lastRun'.run.exc = "none"]_vars

\* C7: failures do not close the channel: the callback stays registered
\* once the room is connected, and after any number of logged failures a
\* packet still gets its task and a well-formed job_description message with
\* non-empty content from a sender that is no agent is still forwarded.
C7_ChannelStaysOpen ==
    [][/\ epc = "connected" => "on_data_received" \in listeners'
       /\ (errorLog > 0 /\ received' = received + 1) => Len(tasks') = Len(tasks) + 1
       /\ (errorLog > 0 /\ Ran /\ IsJDMessage(lastRun'.dp.data)
                        /\ ~AgentKind(lastRun'.dp.participant))
            => ForwardsOnce(JDContent(lastRun'.dp.data))]_vars

C7_Witness ==
    /\ lastRun.errorsBefore > 0
    /\ IsJDMessage(lastRun.dp.data)
    /\ lastRun.run.call
    /\ Len(calls) > 0
    /\ "on_data_received" \in listeners

RECURSIVE Split(_, _)
\* text.split(sep) for a one-character sep
Split(text, sep) ==
    LET cuts == {i \in 1..Len(text) : <<text[i]>> = sep}
    IN  IF cuts = {} THEN <<text>>
        ELSE LET c == CHOOSE i \in cuts : \A j \in cuts : i <= j
             IN  <<SubSeq(text, 1, c - 1)>> \o Split(SubSeq(text, c + 1, Len(text)), sep)

\* The context inside a returned block: what stands between the header and
\* the blank line.
ContextOf(block) == SubSeq(block, Len(Header) + 1, Len(block) - Len(BlankLine) - Len(Instruction))

\* C8: the context of a returned block is at most 5 chunks of the
\* collection joined by "\n---\n", and is the "No relevant experience found
\* in resume." sentinel whenever the query gave no documents (None, an empty
\* outer list, or an empty first list).
C8_AtMostFive ==
    Retrieved =>
        IF HasDocuments
        THEN LET parts == Split(ContextOf(lastTool.value), Separator)
             IN  /\ Len(parts) <= 5
                 /\ parts = lastTool.query.documents.lists[1]
                 /\ \A i \in 1..Len(parts) : \E c \in 1..chunks : parts[i] = ChunkTexts[c]
        ELSE ContextOf(lastTool.value) = NoExperience

C8_Witness ==
    /\ Retrieved
    /\ chunks > 5
    /\ HasDocuments
    /\ Len(Split(ContextOf(lastTool.value), Separator)) = 5

\* C9: session.generate_reply is called only by a task that decoded the
\* type "job_description" and a non-empty content from a JSON object: the
\* raw fallback, another or a missing type, an empty or a missing content
\* never lead to a call.
C9_OnlyJobDescriptions ==
    [][/\ calls' # calls
            => /\ Ran
               /\ lastRun'.run.path = "json"
               /\ lastRun'.run.message_type = PyStr(JobDescription)
               /\ lastRun'.run.content.t = "str"
               /\ Len(lastRun'.run.content.v) > 0
       /\ (Ran /\ lastRun'.run.path = "raw") => calls' = calls]_vars

C9_Witness ==
    /\ ran > 0
    /\ lastRun.dp = [participant |-> Recruiter, data |-> <<Word(<<"b", "a">>)>>]
    /\ lastRun.run.path = "raw"
    /\ lastRun.run.content = PyStr(<<Word(<<"b", "a">>)>>)
    /\ calls = << >>

\* C10: packets are neither queued nor serialized: every packet the room
\* emits gets a task of its own at once, whatever replies are in flight, and
\* a task that reaches line 130 calls session.generate_reply while another
\* reply is still in flight.
C10_NoSerialization ==
    [][/\ received' = received + 1
            => /\ Len(tasks') = Len(tasks) + 1
               /\ tasks'[Len(tasks')].at = "created"
               /\ SubSeq(tasks', 1, Len(tasks)) = tasks
       /\ (Ran /\ InFlight # {} /\ IsJDMessage(lastRun'.dp.data)
               /\ ~AgentKind(lastRun'.dp.participant))
            => Len(calls') = Len(calls) + 1]_vars

\* Two replies are in flight at once.
C10_Witness == Cardinality(InFlight) >= 2
====
